---- MODULE Spec2Model ----
(***************************************************************************)
(* A model of Vector-Fields.py: the VectorFieldVisualizer window (its      *)
(* input fields, radio-button group, figure, canvas and navigation mode),  *)
(* the three per-system plot routines and safe_normalize.                  *)
(*                                                                         *)
(* Real numbers are fixed-point integers: a field value v stands for       *)
(* v / Unit.  Literals inside an expression keep the resolution 1 / Fine   *)
(* so that the anti-singularity shifts 1e-5, 1e-6 and 1e-7 stay distinct   *)
(* from zero in the expression tree.  A text is the sequence of its tokens.*)
(***************************************************************************)
EXTENDS Integers, Sequences, FiniteSets

\* ------------------------------------------------------------ arithmetic

\* Resolution of evaluated field values: v stands for v / Unit.
Unit == 1000
\* Resolution of the samples handed to safe_normalize on its own.
NormUnit == 1000000
\* Resolution of the literals of an expression tree (1e-7).
Fine == 10 * 1000 * 1000

Abs(a) == IF a < 0 THEN -a ELSE a

RECURSIVE SqrtSearch(_, _, _)
SqrtSearch(n, lo, hi) ==
    IF lo >= hi THEN lo
    ELSE LET mid == (lo + hi + 1) \div 2
         IN  IF mid <= n \div mid THEN SqrtSearch(n, mid, hi)
             ELSE SqrtSearch(n, lo, mid - 1)

\* np.sqrt on fixed-point squares: the integer square root.
Sqrt(n) == SqrtSearch(n, 0, n \div 2 + 1)

\* a * b and a / b at resolution u.
MulAt(a, b, u) == (a * b) \div u

\* np.pi at resolution Unit.
Pi == (31416 * Unit) \div 10000
TwoPi == (62832 * Unit) \div 10000
HalfPi == (15708 * Unit) \div 10000

\* The sine of x in [0, HalfPi]: the Taylor polynomial up to x^9.
SinPoly(x) ==
    LET x2 == MulAt(x, x, Unit)
        t3 == MulAt(x, x2, Unit) \div 6
        t5 == MulAt(t3, x2, Unit) \div 20
        t7 == MulAt(t5, x2, Unit) \div 42
        t9 == MulAt(t7, x2, Unit) \div 72
    IN  x - t3 + t5 - t7 + t9

\* The sine of x in [0, TwoPi).
SinTurn(x) ==
    IF x <= HalfPi THEN SinPoly(x)
    ELSE IF x <= Pi THEN SinPoly(Pi - x)
    ELSE IF x <= Pi + HalfPi THEN -SinPoly(x - Pi)
    ELSE -SinPoly(TwoPi - x)

\* np.sin and np.cos.
Sin(x) == SinTurn(x % TwoPi)
Cos(x) == SinTurn((x + HalfPi) % TwoPi)

\* np.linspace(a, b, n)[i], i in 0 .. n-1.
Linspace(a, b, n, i) == a + (i * (b - a)) \div (n - 1)

\* ----------------------------------------------------------- expressions

\* An expression tree, as sympify builds it.  val is a literal in 1/Fine.
Num(v) == [op |-> "num", val |-> v, name |-> "", args |-> <<>>]
Sym(s) == [op |-> "sym", val |-> 0, name |-> s, args |-> <<>>]
Un(o, a) == [op |-> o, val |-> 0, name |-> "", args |-> <<a>>]
Bin(o, a, b) == [op |-> o, val |-> 0, name |-> "", args |-> <<a, b>>]

NumberTokens == {"0", "1", "2"}
NameTokens == {"x", "y", "z", "r", "theta", "phi"}
FuncTokens == {"sin", "cos"}

\* The value of a number token, in 1/Fine.
NumberValue(t) == (CASE t = "0" -> 0 [] t = "1" -> 1 [] t = "2" -> 2) * Fine

Fail(p) == [ok |-> FALSE, ast |-> Num(0), pos |-> p]
Done(a, p) == [ok |-> TRUE, ast |-> a, pos |-> p]

RECURSIVE ParseExpr(_, _), ParseExprRest(_, _), ParseTerm(_, _), ParseTermRest(_, _), ParseUnary(_, _), ParseAtom(_, _)

\* atom := NUMBER | NAME | FUNC "(" expr ")" | "(" expr ")"
ParseAtom(toks, p) ==
    IF p > Len(toks) THEN Fail(p)
    ELSE LET t == toks[p]
         IN  IF t \in NumberTokens THEN Done(Num(NumberValue(t)), p + 1)
             ELSE IF t \in NameTokens THEN Done(Sym(t), p + 1)
             ELSE IF t \in FuncTokens \/ t = "("
             THEN LET q == IF t = "(" THEN p ELSE p + 1
                  IN  IF q > Len(toks) \/ toks[q] # "(" THEN Fail(q)
                      ELSE LET e == ParseExpr(toks, q + 1)
                           IN  IF ~e.ok \/ e.pos > Len(toks) \/ toks[e.pos] # ")"
                               THEN Fail(e.pos)
                               ELSE Done(IF t = "(" THEN e.ast ELSE Un(t, e.ast), e.pos + 1)
             ELSE Fail(p)

\* unary := "-" unary | atom
ParseUnary(toks, p) ==
    IF p <= Len(toks) /\ toks[p] = "-"
    THEN LET u == ParseUnary(toks, p + 1)
         IN  IF u.ok THEN Done(Un("neg", u.ast), u.pos) ELSE u
    ELSE ParseAtom(toks, p)

\* term := unary ("*" unary)*, left is the product parsed so far.
ParseTermRest(toks, left) ==
    IF left.pos <= Len(toks) /\ toks[left.pos] = "*"
    THEN LET u == ParseUnary(toks, left.pos + 1)
         IN  IF u.ok THEN ParseTermRest(toks, Done(Bin("mul", left.ast, u.ast), u.pos))
             ELSE u
    ELSE left

ParseTerm(toks, p) ==
    LET u == ParseUnary(toks, p)
    IN  IF u.ok THEN ParseTermRest(toks, u) ELSE u

\* expr := term (("+" | "-") term)*, left is the sum parsed so far.
ParseExprRest(toks, left) ==
    IF left.pos <= Len(toks) /\ toks[left.pos] \in {"+", "-"}
    THEN LET t == ParseTerm(toks, left.pos + 1)
             rhs == IF toks[left.pos] = "-" THEN Un("neg", t.ast) ELSE t.ast
         IN  IF t.ok THEN ParseExprRest(toks, Done(Bin("add", left.ast, rhs), t.pos))
             ELSE t
    ELSE left

ParseExpr(toks, p) ==
    LET t == ParseTerm(toks, p)
    IN  IF t.ok THEN ParseExprRest(toks, t) ELSE t

\* sp.sympify of one text: a tree, or SympifyError when the text is not one
\* whole expression.
sympify(toks) ==
    LET e == ParseExpr(toks, 1)
    IN  IF e.ok /\ e.pos = Len(toks) + 1 THEN e ELSE Fail(e.pos)

RECURSIVE subs(_, _, _)
\* expr.subs(s, by): every occurrence of symbol s replaced by the tree by.
subs(e, s, by) ==
    IF e.op = "sym" THEN (IF e.name = s THEN by ELSE e)
    ELSE IF e.op = "num" THEN e
    ELSE [e EXCEPT !.args = [i \in 1..Len(e.args) |-> subs(e.args[i], s, by)]]

RECURSIVE IsZero(_)
\* Whether sympy's automatic evaluation turns the tree into the number 0.
IsZero(e) ==
    CASE e.op = "num" -> e.val = 0
      [] e.op = "sym" -> FALSE
      [] e.op = "neg" -> IsZero(e.args[1])
      [] e.op = "sin" -> IsZero(e.args[1])
      [] e.op = "cos" -> FALSE
      [] e.op = "mul" -> IsZero(e.args[1]) \/ IsZero(e.args[2])
      [] e.op = "add" -> IsZero(e.args[1]) /\ IsZero(e.args[2])

RECURSIVE free_symbols(_)
\* expr.free_symbols after automatic evaluation (0 * x is 0).
free_symbols(e) ==
    IF IsZero(e) THEN {}
    ELSE CASE e.op = "num" -> {}
           [] e.op = "sym" -> {e.name}
           [] e.op \in {"neg", "sin", "cos"} -> free_symbols(e.args[1])
           [] e.op \in {"mul", "add"} ->
                free_symbols(e.args[1]) \cup free_symbols(e.args[2])

RECURSIVE Eval(_, _)
\* The value of a tree at a point: env maps each symbol to its coordinate.
Eval(e, env) ==
    CASE e.op = "num" -> e.val \div (Fine \div Unit)
      [] e.op = "sym" -> env[e.name]
      [] e.op = "neg" -> -Eval(e.args[1], env)
      [] e.op = "sin" -> Sin(Eval(e.args[1], env))
      [] e.op = "cos" -> Cos(Eval(e.args[1], env))
      [] e.op = "mul" -> MulAt(Eval(e.args[1], env), Eval(e.args[2], env), Unit)
      [] e.op = "add" -> Eval(e.args[1], env) + Eval(e.args[2], env)

\* ---------------------------------------------------------------- arrays

\* The element of a one-element set.  Only({e(v) : v \in {x}}) is e applied to
\* the value of x, which is computed once: a value assigned to a local name.
Only(S) == CHOOSE r \in S : TRUE

\* A numpy value: shape <<>> is a scalar (0-d), otherwise the meshgrid's shape.
\* data maps each index to the value there; bad holds the indices whose value
\* is not finite (inf or nan).
Indices(shape) ==
    CASE Len(shape) = 0 -> {<<>>}
      [] Len(shape) = 1 -> {<<i>> : i \in 0..(shape[1] - 1)}
      [] Len(shape) = 2 -> {<<i, j>> : i \in 0..(shape[1] - 1), j \in 0..(shape[2] - 1)}
      [] Len(shape) = 3 ->
           {<<i, j, k>> : i \in 0..(shape[1] - 1), j \in 0..(shape[2] - 1),
                          k \in 0..(shape[3] - 1)}

Scalar(v) == [shape |-> <<>>, data |-> [idx \in {<<>>} |-> v], bad |-> {}]

\* The argument W=None of safe_normalize.
None == [shape |-> <<0>>, data |-> [idx \in {} |-> 0], bad |-> {}]

At(a, idx) == IF Len(a.shape) = 0 THEN a.data[<<>>] ELSE a.data[idx]
BadAt(a, idx) == IF Len(a.shape) = 0 THEN a.bad # {} ELSE idx \in a.bad

\* numpy broadcasting of a scalar against an array.
BroadcastShape(a, b) == IF Len(a.shape) = 0 THEN b.shape ELSE a.shape

Plus(a, b) == a + b
Minus(a, b) == a - b
Times(a, b) == MulAt(a, b, Unit)
SumSq2(a, b) == a * a + b * b
\* x / y at resolution Unit; the value where y is 0 is inf or nan.
Quotient(x, y) == IF y = 0 THEN 0 ELSE (x * Unit) \div y

\* The binary and unary operations on numbers that numpy applies elementwise.
Apply2(op, x, y) ==
    CASE op = "add" -> Plus(x, y)
      [] op = "sub" -> Minus(x, y)
      [] op = "mul" -> Times(x, y)
      [] op = "sumsq" -> SumSq2(x, y)
      [] op = "div" -> Quotient(x, y)
Apply1(op, x) ==
    CASE op = "sqrt" -> Sqrt(x)
      [] op = "sin" -> Sin(x)
      [] op = "cos" -> Cos(x)

\* An elementwise binary operation on two values, with broadcasting.
ElementwiseOn(op, av, bv) ==
    [shape |-> BroadcastShape(av, bv),
     data |-> [idx \in Indices(BroadcastShape(av, bv)) |-> Apply2(op, At(av, idx), At(bv, idx))],
     bad |-> {idx \in Indices(BroadcastShape(av, bv)) : BadAt(av, idx) \/ BadAt(bv, idx)}]
Elementwise(op, a, b) == Only({ElementwiseOn(op, av, bv) : av \in {a}, bv \in {b}})

\* An elementwise unary operation.
Elementwise1(op, a) ==
    Only({[shape |-> av.shape, data |-> [idx \in Indices(av.shape) |-> Apply1(op, av.data[idx])],
           bad |-> av.bad] : av \in {a}})

ArrAdd(a, b) == Elementwise("add", a, b)
ArrSub(a, b) == Elementwise("sub", a, b)
ArrMul(a, b) == Elementwise("mul", a, b)
ArrSin(a) == Elementwise1("sin", a)
ArrCos(a) == Elementwise1("cos", a)

\* a / d: x / 0 is inf or nan, not an error.
ArrDiv(a, d) ==
    Only({Only({[q EXCEPT !.bad = q.bad \cup {idx \in Indices(q.shape) : At(dv, idx) = 0}] :
                  q \in {Elementwise("div", a, dv)}}) : dv \in {d}})

\* ---------------------------------------------------------- safe_normalize

\* A clamp floor of 0.
ZeroFloor(u) == 0

\* epsilon = 1e-5 and the clamp floor 1e-2, at resolution u.
epsilon(u) == u \div 100000
Floor(u) == u \div 100

\* U ** 2 + V ** 2, the square root left out.
SquaredNorm(U, V) == Elementwise("sumsq", U, V)

\* np.sqrt(U ** 2 + V ** 2)
Norm2(U, V) == Elementwise1("sqrt", Elementwise("sumsq", U, V))

\* np.sqrt(U ** 2 + V ** 2 + W ** 2) + epsilon
Norm3(U, V, W, u) ==
    ArrAdd(Elementwise1("sqrt",
               ArrAdd(Elementwise("sumsq", U, V), Elementwise("sumsq", W, Scalar(0)))),
           Scalar(epsilon(u)))

\* A norm left as computed.
Unclamped(norm, u) == norm

\* np.where(norm < 1e-2, 1e-2, norm)
ClampNorm(norm, u) ==
    Only({[n EXCEPT !.data = [idx \in Indices(n.shape) |->
                                 IF n.data[idx] < Floor(u) THEN Floor(u) ELSE n.data[idx]]] :
            n \in {norm}})

\* The divisor safe_normalize divides by.
Divisor(U, V, W, u) ==
    IF W = None THEN ClampNorm(Norm2(U, V), u)
    ELSE ClampNorm(Norm3(U, V, W, u), u)

\* safe_normalize(U, V, W=None), its inputs at resolution u: the normalized
\* components, and the divisor for reference.
safe_normalize(U, V, W, u) ==
    Only({[U |-> ArrDiv(U, norm), V |-> ArrDiv(V, norm),
           W |-> IF W = None THEN None ELSE ArrDiv(W, norm),
           norm |-> norm] : norm \in {Divisor(U, V, W, u)}})

\* ------------------------------------------------------------------ grids

\* Points per axis.  The code samples 8 points per axis of a 3D mesh (16 on
\* the azimuth) and 20 per axis of a 2D mesh; the model samples fewer.
Points3D == 3
PointsAzimuth == 5
Points2D == 3

\* np.linspace(-10, 10, n), np.linspace(0, 10, n), np.linspace(0, 2 * np.pi, n)
\* and np.linspace(0, np.pi, n).
Linear(n) == [i \in 0..(n - 1) |-> Linspace(-10 * Unit, 10 * Unit, n, i)]
Radial(n) == [i \in 0..(n - 1) |-> Linspace(0, 10 * Unit, n, i)]
Azimuth(n) == [i \in 0..(n - 1) |-> Linspace(0, 2 * Pi, n, i)]
Polar(n) == [i \in 0..(n - 1) |-> Linspace(0, Pi, n, i)]

\* One coordinate array of np.meshgrid(a1, a2[, a3]): the array of argument
\* number which.  With numpy's default 'xy' indexing the shape is
\* (n2, n1[, n3]) and argument 1 runs along the second index.
AxisLen(axis) == Cardinality(DOMAIN axis)
MeshShape(axes) ==
    IF Len(axes) = 2 THEN <<AxisLen(axes[2]), AxisLen(axes[1])>>
    ELSE <<AxisLen(axes[2]), AxisLen(axes[1]), AxisLen(axes[3])>>
MeshAxis(which) == CASE which = 1 -> 2 [] which = 2 -> 1 [] which = 3 -> 3
Mesh(axes, which) ==
    [shape |-> MeshShape(axes),
     data |-> [idx \in Indices(MeshShape(axes)) |-> axes[which][idx[MeshAxis(which)]]],
     bad |-> {}]

\* np.meshgrid(a1, a2[, a3])
meshgrid(axes) == [which \in 1..Len(axes) |-> Mesh(axes, which)]

\* ---------------------------------------------------------------- lambdify

\* sp.lambdify(args, e)(grids): NameError when e refers to a symbol that is
\* not an argument.
NameError(args, e) == ~(free_symbols(e) \subseteq {args[k] : k \in 1..Len(args)})

\* The coordinates of grid point idx, by symbol: the arguments of the call.
PointEnv(args, grids, idx) ==
    [n \in NameTokens |->
        IF \E k \in 1..Len(args) : args[k] = n
        THEN grids[CHOOSE k \in 1..Len(args) : args[k] = n].data[idx]
        ELSE 0]

\* sp.lambdify(args, e)(grids): the value of e at every grid point when e
\* refers to an argument, and a plain scalar when it refers to none.
lambdify(args, e, grids) ==
    IF free_symbols(e) = {}
    THEN Scalar(Eval(e, [n \in NameTokens |-> 0]))
    ELSE [shape |-> grids[1].shape,
          data |-> [idx \in Indices(grids[1].shape) |-> Eval(e, PointEnv(args, grids, idx))],
          bad |-> {}]

\* x -> x + eps, eps in 1/Fine.
Shift(e, s, eps) == subs(e, s, Bin("add", Sym(s), Num(eps)))

\* What a plot routine did: the exception it raised ("" for none), whether a
\* plot-type branch reached ax.quiver, the meshgrid arrays, the values f of the
\* lambdified components on them, and the arrays handed to ax.quiver: the
\* arrow positions grid, and the components vec, which are pre normalized.
Outcome(kind, drawn, mesh, f, grid, pre, vec) ==
    [raised |-> kind, drawn |-> drawn, mesh |-> mesh, f |-> f, grid |-> grid,
     pre |-> pre, vec |-> vec]
Raised(kind) == Outcome(kind, FALSE, <<>>, <<>>, <<>>, <<>>, <<>>)
NoBranch == Outcome("", FALSE, <<>>, <<>>, <<>>, <<>>, <<>>)
Quiver(mesh, f, grid, pre, vec) == Outcome("", TRUE, mesh, f, grid, pre, vec)

\* except Exception as e: raise ValueError(...) around a routine's body: every
\* exception raised inside leaves the routine as a ValueError.
Reraise(kind) == "ValueError"

\* sp.sympify(vector_field): the three trees, or SympifyError.
SympifyError(vector_field) == \E i \in 1..3 : ~sympify(vector_field[i]).ok
Trees(vector_field) == [i \in 1..3 |-> sympify(vector_field[i]).ast]

\* A lambdified component: its arguments and its tree.
Lam(args, e) == [args |-> args, e |-> e]
AnyNameError(lams) == \E i \in 1..Len(lams) : NameError(lams[i].args, lams[i].e)
Call(lams, grids) == [i \in 1..Len(lams) |-> lambdify(lams[i].args, lams[i].e, grids)]

\* How a routine ends whose plot type evaluates the components lams: the
\* exception raised inside its try block, "none" when no plot-type branch
\* matches, "quiver" when ax.quiver is reached.
Status(vector_field, lams) ==
    IF SympifyError(vector_field) THEN "SympifyError"
    ELSE IF lams = <<>> THEN "none"
    ELSE IF AnyNameError(lams) THEN "NameError"
    ELSE "quiver"

\* safe_normalize on two or three components, as a sequence.
Normalized(c) ==
    Only({IF Len(c) = 3 THEN <<n.U, n.V, n.W>> ELSE <<n.U, n.V>> :
            n \in {safe_normalize(c[1], c[2], IF Len(c) = 3 THEN c[3] ELSE None, Unit)}})

\* The end of a routine that evaluates lams on mesh: an exception, or
\* ax.quiver(grid, U, V[, W]) with the components pre normalized.
Finish(st, mesh, f, grid, pre) ==
    IF st = "none" THEN NoBranch
    ELSE IF st # "quiver" THEN Raised(Reraise(st))
    ELSE Quiver(mesh, f, grid, pre, Normalized(pre))

\* ---------------------------------------------------------- plot_cartesian

CartesianTrees(vector_field) ==
    Only({[i \in 1..3 |-> Shift(Shift(Shift(F[i], "x", 100), "y", 10), "z", 1)] :
            F \in {Trees(vector_field)}})

\* The components a plot type evaluates, each with its lambdify arguments.
CartesianLambdas(F, plot_type) ==
    CASE plot_type = "3D" ->
           <<Lam(<<"x", "y", "z">>, F[1]), Lam(<<"x", "y", "z">>, F[2]),
             Lam(<<"x", "y", "z">>, F[3])>>
      [] plot_type = "XY" ->
           <<Lam(<<"x", "y">>, subs(F[1], "z", Num(0))),
             Lam(<<"x", "y">>, subs(F[2], "z", Num(0)))>>
      [] plot_type = "YZ" ->
           <<Lam(<<"y", "z">>, subs(F[2], "x", Num(0))),
             Lam(<<"y", "z">>, subs(F[3], "x", Num(0)))>>
      [] plot_type = "XZ" ->
           <<Lam(<<"x", "z">>, subs(F[1], "y", Num(0))),
             Lam(<<"x", "z">>, subs(F[3], "y", Num(0)))>>
      [] OTHER -> <<>>

\* The lambdified components of a request; <<>> when a text does not parse.
cartesian_lambdas(vector_field, plot_type) ==
    IF SympifyError(vector_field) THEN <<>>
    ELSE Only({CartesianLambdas(F, plot_type) : F \in {CartesianTrees(vector_field)}})

CartesianGrid(plot_type) ==
    IF plot_type = "3D"
    THEN meshgrid(<<Linear(Points3D), Linear(Points3D), Linear(Points3D)>>)
    ELSE meshgrid(<<Linear(Points2D), Linear(Points2D)>>)

cartesian_status(vector_field, plot_type) ==
    Only({Status(vector_field, lams) : lams \in {cartesian_lambdas(vector_field, plot_type)}})

\* The branches of plot_cartesian, once the components are known to evaluate.
CartesianQuiver(st, lams, grid) ==
    IF st # "quiver" THEN Finish(st, <<>>, <<>>, <<>>, <<>>)
    ELSE Only({Finish(st, grid, f, grid, f) : f \in {Call(lams, grid)}})

plot_cartesian(vector_field, plot_type) ==
    Only({CartesianQuiver(Status(vector_field, lams), lams, grid) :
            lams \in {cartesian_lambdas(vector_field, plot_type)},
            grid \in {CartesianGrid(plot_type)}})

\* -------------------------------------------------------- plot_cylindrical

CylindricalTrees(vector_field) ==
    Only({<<Shift(Shift(F[1], "r", 100), "z", 10),
            Shift(Shift(F[2], "r", 100), "z", 10),
            Shift(Shift(F[3], "r", 10), "z", 10)>> : F \in {Trees(vector_field)}})

\* The components of plot_cylindrical with the radius of the theta-Z slice held
\* at 0.
CylindricalLambdasAtAxis(F, plot_type) ==
    CASE plot_type = "3D" ->
           <<Lam(<<"r", "theta", "z">>, F[1]), Lam(<<"r", "theta", "z">>, F[2]),
             Lam(<<"r", "theta", "z">>, F[3])>>
      [] plot_type = "Rθ" ->
           <<Lam(<<"r", "theta">>, subs(F[1], "z", Num(0))),
             Lam(<<"r", "theta">>, subs(F[2], "z", Num(0)))>>
      [] plot_type = "RZ" ->
           <<Lam(<<"r", "z">>, subs(F[1], "theta", Num(0))),
             Lam(<<"r", "z">>, subs(F[3], "theta", Num(0)))>>
      [] plot_type = "θZ" ->
           <<Lam(<<"theta", "z">>, subs(F[2], "r", Num(0))),
             Lam(<<"theta", "z">>, subs(F[3], "r", Num(0)))>>
      [] OTHER -> <<>>

CylindricalLambdas(F, plot_type) ==
    CASE plot_type = "3D" ->
           <<Lam(<<"r", "theta", "z">>, F[1]), Lam(<<"r", "theta", "z">>, F[2]),
             Lam(<<"r", "theta", "z">>, F[3])>>
      [] plot_type = "Rθ" ->
           <<Lam(<<"r", "theta">>, subs(F[1], "z", Num(0))),
             Lam(<<"r", "theta">>, subs(F[2], "z", Num(0)))>>
      [] plot_type = "RZ" ->
           <<Lam(<<"r", "z">>, subs(F[1], "theta", Num(0))),
             Lam(<<"r", "z">>, subs(F[3], "theta", Num(0)))>>
      [] plot_type = "θZ" ->
           <<Lam(<<"theta", "z">>, subs(F[2], "r", Num(5 * Fine))),
             Lam(<<"theta", "z">>, subs(F[3], "r", Num(5 * Fine)))>>
      [] OTHER -> <<>>

cylindrical_lambdas(vector_field, plot_type) ==
    IF SympifyError(vector_field) THEN <<>>
    ELSE Only({CylindricalLambdas(F, plot_type) : F \in {CylindricalTrees(vector_field)}})

\* The meshgrid of each plot type: (R, THETA, Z), (R, THETA), (R, Z), (THETA, Z).
CylindricalMesh(plot_type) ==
    CASE plot_type = "3D" ->
           meshgrid(<<Radial(Points3D), Azimuth(PointsAzimuth), Linear(Points3D)>>)
      [] plot_type = "Rθ" -> meshgrid(<<Radial(Points2D), Azimuth(Points2D)>>)
      [] plot_type = "RZ" -> meshgrid(<<Radial(Points2D), Linear(Points2D)>>)
      [] OTHER -> meshgrid(<<Azimuth(Points2D), Linear(Points2D)>>)

\* Fr * cos(THETA) + Ftheta * sin(THETA): the sign of the second term turned.
CylindricalUPlus(f, THETA) ==
    ArrAdd(ArrMul(f[1], ArrCos(THETA)), ArrMul(f[2], ArrSin(THETA)))

\* U = Fr * cos(THETA) - Ftheta * sin(THETA)
CylindricalU(f, THETA) == ArrSub(ArrMul(f[1], ArrCos(THETA)), ArrMul(f[2], ArrSin(THETA)))
\* V = Fr * sin(THETA) + Ftheta * cos(THETA)
CylindricalV(f, THETA) == ArrAdd(ArrMul(f[1], ArrSin(THETA)), ArrMul(f[2], ArrCos(THETA)))

\* The 3D branch: the arrow positions X, Y, Z and the Cartesian components.
Cylindrical3D(st, f, mesh) ==
    Only({Finish(st, mesh, f, grid, pre) :
            grid \in {<<ArrMul(mesh[1], ArrCos(mesh[2])), ArrMul(mesh[1], ArrSin(mesh[2])),
                        mesh[3]>>},
            pre \in {<<CylindricalU(f, mesh[2]), CylindricalV(f, mesh[2]), f[3]>>}})

cylindrical_status(vector_field, plot_type) ==
    Only({Status(vector_field, lams) : lams \in {cylindrical_lambdas(vector_field, plot_type)}})

\* The branches of plot_cylindrical, once the components are known to evaluate.
CylindricalQuiver(st, lams, mesh, plot_type) ==
    IF st # "quiver" THEN Finish(st, <<>>, <<>>, <<>>, <<>>)
    ELSE Only({IF plot_type = "3D" THEN Cylindrical3D(st, f, mesh)
               ELSE Finish(st, mesh, f, mesh, f) : f \in {Call(lams, mesh)}})

plot_cylindrical(vector_field, plot_type) ==
    Only({CylindricalQuiver(Status(vector_field, lams), lams, mesh, plot_type) :
            lams \in {cylindrical_lambdas(vector_field, plot_type)},
            mesh \in {CylindricalMesh(plot_type)}})

\* ---------------------------------------------------------- plot_spherical

\* np.pi / 2 as a literal, in 1/Fine.
HalfPiFine == 15707963

SphericalLambdas(F, plot_type) ==
    CASE plot_type = "3D" ->
           <<Lam(<<"r", "theta", "phi">>, F[1]), Lam(<<"r", "theta", "phi">>, F[2]),
             Lam(<<"r", "theta", "phi">>, F[3])>>
      [] plot_type = "Rθ" ->
           <<Lam(<<"r", "theta">>, subs(F[1], "phi", Num(0))),
             Lam(<<"r", "theta">>, subs(F[2], "phi", Num(0)))>>
      [] plot_type = "Rφ" ->
           <<Lam(<<"r", "phi">>, subs(F[1], "theta", Num(HalfPiFine))),
             Lam(<<"r", "phi">>, subs(F[3], "theta", Num(HalfPiFine)))>>
      [] plot_type = "θφ" ->
           <<Lam(<<"theta", "phi">>, subs(F[2], "r", Num(5 * Fine))),
             Lam(<<"theta", "phi">>, subs(F[3], "r", Num(5 * Fine)))>>
      [] OTHER -> <<>>

spherical_lambdas(vector_field, plot_type) ==
    IF SympifyError(vector_field) THEN <<>>
    ELSE Only({SphericalLambdas(F, plot_type) : F \in {Trees(vector_field)}})

\* The meshgrid of each plot type: (R, THETA, PHI), (R, THETA), (R, PHI),
\* (THETA, PHI).
SphericalMesh(plot_type) ==
    CASE plot_type = "3D" ->
           meshgrid(<<Radial(Points3D), Polar(Points3D), Azimuth(PointsAzimuth)>>)
      [] plot_type = "Rθ" -> meshgrid(<<Radial(Points2D), Polar(Points2D)>>)
      [] plot_type = "Rφ" -> meshgrid(<<Radial(Points2D), Azimuth(Points2D)>>)
      [] OTHER -> meshgrid(<<Polar(Points2D), Azimuth(Points2D)>>)

\* U = Fr sin(THETA) cos(PHI) + Ftheta cos(THETA) cos(PHI) - Fphi sin(PHI)
SphericalU(f, THETA, PHI) ==
    ArrSub(ArrAdd(ArrMul(ArrMul(f[1], ArrSin(THETA)), ArrCos(PHI)),
                  ArrMul(ArrMul(f[2], ArrCos(THETA)), ArrCos(PHI))),
           ArrMul(f[3], ArrSin(PHI)))
\* V = Fr sin(THETA) sin(PHI) + Ftheta cos(THETA) sin(PHI) + Fphi cos(PHI)
SphericalV(f, THETA, PHI) ==
    ArrAdd(ArrAdd(ArrMul(ArrMul(f[1], ArrSin(THETA)), ArrSin(PHI)),
                  ArrMul(ArrMul(f[2], ArrCos(THETA)), ArrSin(PHI))),
           ArrMul(f[3], ArrCos(PHI)))

\* Fr cos(THETA) + Ftheta sin(THETA): the sign of the second term turned.
SphericalWPlus(f, THETA) ==
    ArrAdd(ArrMul(f[1], ArrCos(THETA)), ArrMul(f[2], ArrSin(THETA)))

\* W = Fr cos(THETA) - Ftheta sin(THETA)
SphericalW(f, THETA) == ArrSub(ArrMul(f[1], ArrCos(THETA)), ArrMul(f[2], ArrSin(THETA)))

\* The 3D branch: the arrow positions X, Y, Z and the Cartesian components.
Spherical3D(st, f, mesh) ==
    Only({Finish(st, mesh, f, grid, pre) :
            grid \in {<<ArrMul(ArrMul(mesh[1], ArrSin(mesh[2])), ArrCos(mesh[3])),
                        ArrMul(ArrMul(mesh[1], ArrSin(mesh[2])), ArrSin(mesh[3])),
                        ArrMul(mesh[1], ArrCos(mesh[2]))>>},
            pre \in {<<SphericalU(f, mesh[2], mesh[3]), SphericalV(f, mesh[2], mesh[3]),
                       SphericalW(f, mesh[2])>>}})

spherical_status(vector_field, plot_type) ==
    Only({Status(vector_field, lams) : lams \in {spherical_lambdas(vector_field, plot_type)}})

\* The branches of plot_spherical, once the components are known to evaluate.
SphericalQuiver(st, lams, mesh, plot_type) ==
    IF st # "quiver" THEN Finish(st, <<>>, <<>>, <<>>, <<>>)
    ELSE Only({IF plot_type = "3D" THEN Spherical3D(st, f, mesh)
               ELSE Finish(st, mesh, f, mesh, f) : f \in {Call(lams, mesh)}})

plot_spherical(vector_field, plot_type) ==
    Only({SphericalQuiver(Status(vector_field, lams), lams, mesh, plot_type) :
            lams \in {spherical_lambdas(vector_field, plot_type)},
            mesh \in {SphericalMesh(plot_type)}})

\* ================================================================ state

VARIABLES
    coord_combo,    \* the coordinate system selected in the combo box
    entries,        \* the texts of entry1, entry2, entry3
    placeholders,   \* their placeholder texts
    buttons,        \* the texts of the radio buttons of plot_type_group
    checked,        \* the index of the checked radio button, 0 for none
    figure,         \* what self.figure holds
    canvas,         \* what self.canvas last drew
    rendered,       \* the figure as the last successful Plot left it
    lastPlot,       \* how the last Plot action ended
    current_mode,   \* self.current_mode ("None" after construction)
    tool,           \* the toolbar's active tool: "", "pan" or "zoom"
    rotating,       \* rotate_view is connected to the canvas's motion events
    sample,         \* safe_normalize on its own: the components handed to it
    normalized,     \* ... and what it returned
    request,        \* the pipeline on its own: the selections of one Plot
    result,         \* ... and what the plot routine did with them
    reference       \* the selections and the outcome of the first Plot of a run

uiVars == <<coord_combo, entries, placeholders, buttons, checked, figure, canvas,
            rendered, lastPlot, current_mode, tool, rotating>>
normVars == <<sample, normalized>>
fieldVars == <<request, result, reference>>
vars == <<uiVars, normVars, fieldVars>>

\* ------------------------------------------------------------- the window

CoordinateSystems == {"Cartesian", "Cylindrical", "Spherical"}

\* The texts a user types into an entry: nothing, "x +", "x".
Texts == {<<>>, <<"x", "+">>, <<"x">>}

\* update_input_fields: the plot types and placeholders of a system.
plot_types(coord_system) ==
    IF coord_system = "Cartesian" THEN <<"3D", "XY", "YZ", "XZ">>
    ELSE IF coord_system = "Cylindrical" THEN <<"3D", "Rθ", "RZ", "θZ">>
    ELSE <<"3D", "Rθ", "Rφ", "θφ">>

\* Placeholders that do not follow the selected system.
CartesianPlaceholders(coord_system) == <<<<"y">>, <<"-", "x">>, <<"z">>>>

placeholder_texts(coord_system) ==
    IF coord_system = "Cartesian" THEN <<<<"y">>, <<"-", "x">>, <<"z">>>>
    ELSE IF coord_system = "Cylindrical"
    THEN <<<<"-", "r", "*", "sin", "(", "theta", ")">>,
           <<"r", "*", "cos", "(", "theta", ")">>,
           <<"z">>>>
    ELSE <<<<"r", "*", "sin", "(", "theta", ")", "*", "cos", "(", "phi", ")">>,
           <<"r", "*", "sin", "(", "theta", ")", "*", "sin", "(", "phi", ")">>,
           <<"r", "*", "cos", "(", "theta", ")">>>>

\* The radio buttons left in plot_type_group once the old ones are taken out
\* of the layout with setParent(None): the wrapper of a parentless widget is
\* collected at once, and a destroyed button leaves its group.
RemainingButtons(old) == <<>>

\* A group whose new buttons are all left unchecked.
NoneChecked(bs) == 0

\* self.plot_type_group.buttons()[0].setChecked(True)
FirstChecked(bs) == 1

\* update_input_fields for the system now selected.
update_input_fields(coord_system) ==
    LET bs == RemainingButtons(buttons) \o plot_types(coord_system)
    IN  /\ buttons' = bs
        /\ checked' = FirstChecked(bs)
        /\ placeholders' = placeholder_texts(coord_system)

\* entry.text() or entry.placeholderText(), for the three entries.
vector_field(texts, places) ==
    [i \in 1..3 |-> IF texts[i] # <<>> THEN texts[i] ELSE places[i]]

\* The figure: no axes yet, empty axes, or axes with the arrows of a plot.
NoFigure == [axes |-> "none", arrows |-> FALSE]
EmptyAxes(plot_type) == [axes |-> IF plot_type = "3D" THEN "3d" ELSE "2d", arrows |-> FALSE]
Arrows(plot_type) == [axes |-> IF plot_type = "3D" THEN "3d" ELSE "2d", arrows |-> TRUE]

\* How the routine of the selected system ends.
routine_status(coord_system, field, plot_type) ==
    IF coord_system = "Cartesian" THEN cartesian_status(field, plot_type)
    ELSE IF coord_system = "Cylindrical" THEN cylindrical_status(field, plot_type)
    ELSE spherical_status(field, plot_type)

\* A handler that catches SympifyError alone.
CaughtSympifyOnly(kind) == kind = "SympifyError"

\* except Exception at the top of plot_vector_field: the kinds it catches.
Caught(kind) == kind \in {"ValueError", "AttributeError", "NameError", "SympifyError", "TypeError"}

\* The toolbar's pan() and zoom(): each switches its tool on, or off when it
\* is the active one.
Pan(t) == IF t = "pan" THEN "" ELSE "pan"
Zoom(t) == IF t = "zoom" THEN "" ELSE "zoom"

\* if current_mode == 'move': toolbar.pan(); if current_mode == 'zoom': toolbar.zoom()
LeaveMode(mode, t) ==
    IF mode = "move" THEN Pan(t) ELSE IF mode = "zoom" THEN Zoom(t) ELSE t

\* The figure a Plot action leaves behind: st is how the try block ended.
FigureAfterPlot(st, plot_type) ==
    IF st = "AttributeError" THEN figure
    ELSE IF st = "quiver" THEN Arrows(plot_type)
    ELSE EmptyAxes(plot_type)

\* How the last Plot ended: the exception raised inside the try block, the
\* message boxes shown for it, whether it left the handler and the number of
\* times the routine ran.
Ended(kind, shown, escaped, runs) ==
    [raised |-> kind, shown |-> shown, escaped |-> escaped, runs |-> runs]
NotPlotted == Ended("", 0, FALSE, 0)

UIInit ==
    /\ coord_combo = "Cartesian"
    /\ entries = <<<<>>, <<>>, <<>>>>
    /\ buttons = plot_types("Cartesian")
    /\ checked = 1
    /\ placeholders = placeholder_texts("Cartesian")
    /\ figure = NoFigure
    /\ canvas = NoFigure
    /\ rendered = NoFigure
    /\ lastPlot = NotPlotted
    /\ current_mode = "None"
    /\ tool = ""
    /\ rotating = FALSE

\* The user picks another coordinate system: currentIndexChanged.
SelectCoordinateSystem ==
    \E c \in CoordinateSystems :
        /\ c # coord_combo
        /\ coord_combo' = c
        /\ update_input_fields(c)
        /\ UNCHANGED <<entries, figure, canvas, rendered, lastPlot, current_mode, tool,
                       rotating>>

\* The user edits one entry.
EditEntry ==
    \E i \in 1..3, t \in Texts :
        /\ entries[i] # t
        /\ entries' = [entries EXCEPT ![i] = t]
        /\ UNCHANGED <<coord_combo, placeholders, buttons, checked, figure, canvas,
                       rendered, lastPlot, current_mode, tool, rotating>>

\* The user clicks one of the radio buttons.
SelectPlotType ==
    \E k \in 1..Len(buttons) :
        /\ k # checked
        /\ checked' = k
        /\ UNCHANGED <<coord_combo, entries, placeholders, buttons, figure, canvas,
                       rendered, lastPlot, current_mode, tool, rotating>>

\* How the try block of plot_vector_field ends: AttributeError when no radio
\* button is checked (checkedButton() is None), else as the routine ends.
try_status(coord_system, field, bs, k) ==
    IF k = 0 THEN "AttributeError" ELSE routine_status(coord_system, field, bs[k])

\* The exception that leaves the try block, "" for none.
RaisedBy(st) ==
    IF st = "AttributeError" THEN st
    ELSE IF st \in {"quiver", "none"} THEN ""
    ELSE Reraise(st)

\* plot_vector_field
Plot ==
    \E st \in {try_status(coord_combo, vector_field(entries, placeholders), buttons, checked)} :
        LET plot_type == IF checked = 0 THEN "" ELSE buttons[checked]
            raised == RaisedBy(st)
            fig == FigureAfterPlot(st, plot_type)
        IN  /\ tool' = LeaveMode(current_mode, tool)
            /\ current_mode' = "plot"
            /\ figure' = fig
            /\ canvas' = IF raised = "" THEN fig ELSE canvas
            /\ rendered' = IF raised = "" THEN fig ELSE rendered
            /\ lastPlot' = IF raised = "" THEN Ended("", 0, FALSE, 1)
                           ELSE IF Caught(raised) THEN Ended(raised, 1, FALSE, 1)
                           ELSE Ended(raised, 0, TRUE, 1)
            /\ UNCHANGED <<coord_combo, entries, placeholders, buttons, checked, rotating>>

\* save_plot: the file dialog and savefig leave the window's state alone.
SavePlot ==
    /\ tool' = LeaveMode(current_mode, tool)
    /\ current_mode' = "edit_axis"
    /\ UNCHANGED <<coord_combo, entries, placeholders, buttons, checked, figure, canvas,
                   rendered, lastPlot, rotating>>

\* set_navigation_mode(mode)
SetNavigationMode ==
    \E mode \in {"move", "zoom", "rotate", "edit_axis"} :
        /\ tool' = CASE mode = "move" -> Pan(tool)
                     [] mode = "zoom" -> Zoom(tool)
                     [] OTHER -> LeaveMode(current_mode, tool)
        /\ current_mode' = mode
        /\ rotating' = (rotating \/ mode = "rotate")
        /\ UNCHANGED <<coord_combo, entries, placeholders, buttons, checked, figure,
                       canvas, rendered, lastPlot>>

\* reset_view: toolbar.home() and canvas.draw().
ResetView ==
    /\ tool' = LeaveMode(current_mode, tool)
    /\ current_mode' = "reset_view"
    /\ canvas' = figure
    /\ UNCHANGED <<coord_combo, entries, placeholders, buttons, checked, figure,
                   rendered, lastPlot, rotating>>

\* rotate_view: the mouse moves over the canvas with a button held, once the
\* Rotate mode has connected the callback.  figure.gca() puts 2D axes on a
\* figure that has none; 3D axes are turned and the canvas is drawn.
RotateView ==
    /\ rotating
    /\ figure' = IF figure = NoFigure THEN EmptyAxes("") ELSE figure
    /\ canvas' = IF figure.axes = "3d" THEN figure ELSE canvas
    /\ UNCHANGED <<coord_combo, entries, placeholders, buttons, checked, rendered,
                   lastPlot, current_mode, tool, rotating>>

\* ------------------------------------------------- safe_normalize on its own

\* Component values of a sample, at resolution NormUnit: 0.003, 0.004, ...
SampleValues == {0, 3000, 4000, -6000, 8000, 9995, 12000}

NoSample == [U |-> None, V |-> None, W |-> None, norm |-> None]

NormIdle == sample = NoSample /\ normalized = NoSample

NormInit ==
    /\ sample \in {[U |-> Scalar(u), V |-> Scalar(v), W |-> w, norm |-> None] :
                     u \in SampleValues, v \in SampleValues,
                     w \in {None} \cup {Scalar(x) : x \in SampleValues}}
    /\ normalized = NoSample

\* safe_normalize(U, V) or safe_normalize(U, V, W)
Normalize ==
    /\ normalized = NoSample
    /\ normalized' = safe_normalize(sample.U, sample.V, sample.W, NormUnit)
    /\ UNCHANGED sample

\* --------------------------------------------------- the pipeline on its own

\* The texts of an entry in a request: nothing (the placeholder is used), a
\* constant, or a coordinate of the system.
RequestTexts(coord_system) ==
    {<<>>, <<"1">>, <<"0">>}
        \cup (IF coord_system = "Cartesian" THEN {<<"z">>} ELSE {<<"r">>})

NoRequest == [coord_system |-> "", plot_type |-> "", texts |-> <<>>, field |-> <<>>]

\* No Plot yet: plots counts the Plot actions of the run.
NoReference == [request |-> NoRequest, result |-> NoBranch, plots |-> 0]

FieldIdle == request = NoRequest /\ result = NoBranch /\ reference = NoReference

\* The selections plot_vector_field reads: the system, the checked plot type
\* and the three entries, empty ones replaced by their placeholders.
FieldInit ==
    /\ request \in {[coord_system |-> c, plot_type |-> plot_types(c)[k],
                     texts |-> <<t1, t2, t3>>,
                     field |-> vector_field(<<t1, t2, t3>>, placeholder_texts(c))] :
                       c \in CoordinateSystems, k \in 1..4,
                       t1 \in {<<>>, <<"1">>, <<"0">>, <<"z">>, <<"r">>},
                       t2 \in {<<>>, <<"1">>, <<"0">>, <<"z">>, <<"r">>},
                       t3 \in {<<>>, <<"1">>, <<"0">>, <<"z">>, <<"r">>}}
    /\ \A i \in 1..3 : request.texts[i] \in RequestTexts(request.coord_system)
    /\ result = NoBranch
    /\ reference = NoReference

\* A routine that draws the 3D view whenever the toolbar's pan tool is on.
ModalRoutine(coord_system, field, plot_type) ==
    IF tool = "pan" THEN plot_cartesian(field, "3D") ELSE plot_cartesian(field, plot_type)

\* The routine plot_vector_field calls for the request.
plot_routine(coord_system, field, plot_type) ==
    IF coord_system = "Cartesian" THEN plot_cartesian(field, plot_type)
    ELSE IF coord_system = "Cylindrical" THEN plot_cylindrical(field, plot_type)
    ELSE plot_spherical(field, plot_type)

Evaluate ==
    /\ result = NoBranch
    /\ result' = plot_routine(request.coord_system, request.field, request.plot_type)
    /\ UNCHANGED <<request, reference>>

\* ------------------------------------------------- the arrays of each Plot

\* The Plot actions of a run.
MaxPlots == 3

\* The texts typed into entry1: nothing, "x +".
PlotTexts == {<<>>, <<"x", "+">>}

\* The user edits entry1.
EditEntry1 ==
    \E t \in PlotTexts :
        /\ entries[1] # t
        /\ entries' = [entries EXCEPT ![1] = t]
        /\ UNCHANGED <<coord_combo, placeholders, buttons, checked, figure, canvas,
                       rendered, lastPlot, current_mode, tool, rotating>>

\* The selections plot_vector_field reads.
Selections ==
    [coord_system |-> coord_combo, plot_type |-> buttons[checked], texts |-> entries,
     field |-> vector_field(entries, placeholders)]

\* plot_vector_field, with the arrays its routine hands to ax.quiver: request
\* and result are those of the last Plot, reference those of the first.
PlotArrays ==
    /\ reference.plots < MaxPlots
    /\ Plot
    /\ \E q \in {Selections} :
       \E out \in {plot_routine(q.coord_system, q.field, q.plot_type)} :
           /\ request' = q
           /\ result' = out
           /\ reference' = IF reference.plots = 0
                           THEN [request |-> q, result |-> out, plots |-> 1]
                           ELSE [reference EXCEPT !.plots = @ + 1]

\* --------------------------------------------------------- specifications

Init == UIInit /\ NormIdle /\ FieldIdle

Next ==
    \/ SelectCoordinateSystem /\ UNCHANGED <<normVars, fieldVars>>
    \/ EditEntry /\ UNCHANGED <<normVars, fieldVars>>
    \/ SelectPlotType /\ UNCHANGED <<normVars, fieldVars>>
    \/ Plot /\ UNCHANGED <<normVars, fieldVars>>
    \/ SavePlot /\ UNCHANGED <<normVars, fieldVars>>
    \/ SetNavigationMode /\ UNCHANGED <<normVars, fieldVars>>
    \/ ResetView /\ UNCHANGED <<normVars, fieldVars>>
    \/ RotateView /\ UNCHANGED <<normVars, fieldVars>>

\* The window under every sequence of user actions.
Spec == Init /\ [][Next]_vars

NextNorm == Normalize /\ UNCHANGED <<uiVars, fieldVars>>

InitNorm == UIInit /\ NormInit /\ FieldIdle

\* safe_normalize applied to one sample.
SpecNorm == InitNorm /\ [][NextNorm]_vars

NextField == Evaluate /\ UNCHANGED <<uiVars, normVars>>

InitField == UIInit /\ NormIdle /\ FieldInit

\* A plot routine applied to one request.
SpecField == InitField /\ [][NextField]_vars

NextPlots ==
    \/ EditEntry1 /\ UNCHANGED <<normVars, fieldVars>>
    \/ SelectPlotType /\ UNCHANGED <<normVars, fieldVars>>
    \/ PlotArrays /\ UNCHANGED normVars
    \/ SavePlot /\ UNCHANGED <<normVars, fieldVars>>
    \/ SetNavigationMode /\ UNCHANGED <<normVars, fieldVars>>

InitPlots == UIInit /\ NormIdle /\ FieldIdle

\* The Cartesian window under every sequence of plot-type selections, edits of
\* entry1, Plot, Save Plot and navigation-mode clicks, each Plot with its
\* arrays.
SpecPlots == InitPlots /\ [][NextPlots]_vars

\* ================================================================= claims

\* Tolerances, in 1/Unit: of the sine and cosine polynomials, and of a
\* quotient and a square root rounded down.
Tol == 5
NormTol == 3

\* ---- C1
\* C1: when a Plot action fails after a successful one, no partial state is
\* committed: the figure still holds the last successfully rendered plot.
C1_NoPartialState ==
    (lastPlot.raised # "" /\ rendered.arrows) => figure = rendered

\* ---- C2
\* C2: every exception raised during a Plot action is caught at the top of
\* plot_vector_field and turned into exactly one equation-error notification;
\* none escapes the action, a successful Plot shows no notification, and the
\* routine is not run a second time.
C2_ErrorsCaught ==
    /\ ~lastPlot.escaped
    /\ lastPlot.shown = (IF lastPlot.raised # "" THEN 1 ELSE 0)
    /\ lastPlot.runs <= 1

\* A Plot has failed on a text that parses but names a symbol of another
\* system, and the handler has shown its one notification.
C2_Witness ==
    /\ lastPlot.raised = "ValueError"
    /\ lastPlot.shown = 1
    /\ lastPlot.runs = 1
    /\ coord_combo = "Spherical"
    /\ entries[2] = <<"x">>
    /\ current_mode = "plot"

\* ---- C3
\* The placeholder expressions C3 lists.
C3_Defaults(coord_system) ==
    CASE coord_system = "Cartesian" -> <<<<"y">>, <<"-", "x">>, <<"z">>>>
      [] coord_system = "Cylindrical" ->
           <<<<"-", "r", "*", "sin", "(", "theta", ")">>,
             <<"r", "*", "cos", "(", "theta", ")">>,
             <<"z">>>>
      [] coord_system = "Spherical" ->
           <<<<"r", "*", "sin", "(", "theta", ")", "*", "cos", "(", "phi", ")">>,
             <<"r", "*", "sin", "(", "theta", ")", "*", "sin", "(", "phi", ")">>,
             <<"r", "*", "cos", "(", "theta", ")">>>>

\* C3: in every state a Plot action can start from, the field it reads takes,
\* for each empty entry, the placeholder expression of the coordinate system
\* active at that moment, and a non-empty entry as typed.
C3_DefaultFallback ==
    \A i \in 1..3 :
        vector_field(entries, placeholders)[i] =
            IF entries[i] = <<>> THEN C3_Defaults(coord_combo)[i] ELSE entries[i]

\* A Plot has run in the spherical system, reached after a change of system,
\* with one entry empty and one typed.
C3_Witness ==
    /\ coord_combo = "Spherical"
    /\ entries[1] = <<>>
    /\ entries[2] = <<"x">>
    /\ lastPlot.runs = 1
    /\ current_mode = "plot"

\* ---- C4
\* The plot types C4 lists.
C4_ValidTypes(coord_system) ==
    CASE coord_system = "Cartesian" -> {"3D", "XY", "YZ", "XZ"}
      [] coord_system = "Cylindrical" -> {"3D", "Rθ", "RZ", "θZ"}
      [] coord_system = "Spherical" -> {"3D", "Rθ", "Rφ", "θφ"}

\* The branch the routine of a system takes for a plot type: FALSE for none.
C4_TakesBranch(coord_system, plot_type) ==
    LET F == <<Num(0), Num(0), Num(0)>>
    IN  CASE coord_system = "Cartesian" -> CartesianLambdas(F, plot_type) # <<>>
          [] coord_system = "Cylindrical" -> CylindricalLambdas(F, plot_type) # <<>>
          [] coord_system = "Spherical" -> SphericalLambdas(F, plot_type) # <<>>

\* C4: in every state a Plot action can start from, a radio button is checked
\* and its text is one of the valid plot types of the active system, so the
\* routine takes one of its branches; and a Plot that raised nothing has
\* drawn arrows.
C4_PlotTypeValid ==
    /\ checked \in 1..Len(buttons)
    /\ buttons[checked] \in C4_ValidTypes(coord_combo)
    /\ C4_TakesBranch(coord_combo, buttons[checked])
    /\ (lastPlot.runs = 1 /\ lastPlot.raised = "") => figure.arrows

\* A Plot has drawn a spherical 2D plot type selected after a change of system.
C4_Witness ==
    /\ coord_combo = "Spherical"
    /\ buttons[checked] = "θφ"
    /\ lastPlot.runs = 1
    /\ lastPlot.raised = ""
    /\ figure = Arrows("θφ")
    /\ current_mode = "plot"

\* ---- C5
\* The raw Euclidean norm of a sample, and the divisor used for it.
RawNorm(s) ==
    Sqrt(SumSq2(s.U.data[<<>>], s.V.data[<<>>])
         + (IF s.W = None THEN 0 ELSE SumSq2(s.W.data[<<>>], 0)))
UsedDivisor == normalized.norm.data[<<>>]

\* C5 as stated: for every sample whose raw norm is below 1e-2, in the
\* 2-component and in the 3-component case, the divisor is exactly 1e-2.
C5_ClampFloorStated ==
    (normalized # NoSample /\ RawNorm(sample) < Floor(NormUnit))
        => UsedDivisor = Floor(NormUnit)

\* C5, amended: the divisor is exactly 1e-2 for every 2-component sample whose
\* raw norm is below 1e-2 and for every 3-component sample whose raw norm plus
\* 1e-5 is below 1e-2; a 3-component sample whose raw norm is below 1e-2 by
\* less than 1e-5 is divided by its raw norm plus 1e-5.
C5_ClampFloor ==
    normalized # NoSample =>
        IF sample.W = None
        THEN RawNorm(sample) < Floor(NormUnit) => UsedDivisor = Floor(NormUnit)
        ELSE /\ RawNorm(sample) + epsilon(NormUnit) < Floor(NormUnit)
                    => UsedDivisor = Floor(NormUnit)
             /\ RawNorm(sample) + epsilon(NormUnit) >= Floor(NormUnit)
                    => UsedDivisor = RawNorm(sample) + epsilon(NormUnit)

\* A 3-component sample of raw norm 0.005 has been divided by the floor.
C5_Witness ==
    /\ normalized # NoSample
    /\ sample.W # None
    /\ RawNorm(sample) = 5000
    /\ UsedDivisor = Floor(NormUnit)

\* ---- C6
\* The Euclidean norm of the vector safe_normalize returned, in 1/Unit.
ResultNorm == RawNorm(normalized)
Nonzero(s) == RawNorm(s) > 0

\* C6 as stated: for any nonzero sample the returned vector has norm 1 within
\* tolerance.
C6_UnitLengthStated ==
    (normalized # NoSample /\ Nonzero(sample)) => Abs(ResultNorm - Unit) <= NormTol

\* C6, amended: the returned vector has norm 1 within tolerance for every
\* sample whose raw norm is at least the floor 1e-2; a sample below the floor
\* is returned shorter than 1.
C6_UnitLength ==
    normalized # NoSample =>
        /\ RawNorm(sample) >= Floor(NormUnit) => Abs(ResultNorm - Unit) <= NormTol
        /\ RawNorm(sample) < Floor(NormUnit) => ResultNorm <= Unit

\* A 2-component and nonzero sample at the floor or above has been normalized.
C6_Witness ==
    /\ normalized # NoSample
    /\ sample.W = None
    /\ sample.U.data[<<>>] = -6000
    /\ sample.V.data[<<>>] = 8000
    /\ Abs(ResultNorm - Unit) <= NormTol

\* ---- C7
Evaluated(coord_system, plot_type) ==
    /\ request.coord_system = coord_system
    /\ request.plot_type = plot_type
    /\ result.drawn

\* C7: in the cylindrical 3D pipeline, at every grid point, the components
\* before normalization are Ux = Fr cos(theta) - Ftheta sin(theta),
\* Uy = Fr sin(theta) + Ftheta cos(theta) and Uz = Fz; the field (1, 0, 0) gives
\* (Ux, Uy) = (1, 0) at theta = 0 and (0, 1) at theta = pi/2.
C7_CylindricalTransform ==
    Evaluated("Cylindrical", "3D") =>
        \A idx \in Indices(result.mesh[1].shape) :
            LET Fr == At(result.f[1], idx)
                Ftheta == At(result.f[2], idx)
                Fz == At(result.f[3], idx)
                th == At(result.mesh[2], idx)
                Ux == At(result.pre[1], idx)
                Uy == At(result.pre[2], idx)
                Uz == At(result.pre[3], idx)
            IN  /\ Ux = Times(Fr, Cos(th)) - Times(Ftheta, Sin(th))
                /\ Uy = Times(Fr, Sin(th)) + Times(Ftheta, Cos(th))
                /\ Uz = Fz
                /\ (Fr = Unit /\ Ftheta = 0 /\ th = 0)
                       => (Abs(Ux - Unit) <= Tol /\ Abs(Uy) <= Tol)
                /\ (Fr = Unit /\ Ftheta = 0 /\ th = HalfPi)
                       => (Abs(Ux) <= Tol /\ Abs(Uy - Unit) <= Tol)

\* The field (1, 0, 0) has been transformed on a grid that holds theta = pi/2,
\* and points there along Y.
C7_Witness ==
    /\ Evaluated("Cylindrical", "3D")
    /\ request.texts = <<<<"1">>, <<"0">>, <<"0">>>>
    /\ \E idx \in Indices(result.mesh[1].shape) :
           /\ At(result.mesh[2], idx) = HalfPi
           /\ Abs(At(result.pre[2], idx) - Unit) <= Tol
           /\ Abs(At(result.pre[1], idx)) <= Tol

\* ---- C8
\* C8: in the spherical 3D pipeline, at every grid point, the components
\* before normalization are
\* Ux = Fr sin(theta) cos(phi) + Ftheta cos(theta) cos(phi) - Fphi sin(phi),
\* Uy = Fr sin(theta) sin(phi) + Ftheta cos(theta) sin(phi) + Fphi cos(phi),
\* Uz = Fr cos(theta) - Ftheta sin(theta); the field (1, 0, 0) gives (1, 0, 0)
\* at theta = pi/2, phi = 0.
C8_SphericalTransform ==
    Evaluated("Spherical", "3D") =>
        \A idx \in Indices(result.mesh[1].shape) :
            LET Fr == At(result.f[1], idx)
                Ftheta == At(result.f[2], idx)
                Fphi == At(result.f[3], idx)
                th == At(result.mesh[2], idx)
                ph == At(result.mesh[3], idx)
                Ux == At(result.pre[1], idx)
                Uy == At(result.pre[2], idx)
                Uz == At(result.pre[3], idx)
            IN  /\ Ux = Times(Times(Fr, Sin(th)), Cos(ph))
                        + Times(Times(Ftheta, Cos(th)), Cos(ph))
                        - Times(Fphi, Sin(ph))
                /\ Uy = Times(Times(Fr, Sin(th)), Sin(ph))
                        + Times(Times(Ftheta, Cos(th)), Sin(ph))
                        + Times(Fphi, Cos(ph))
                /\ Uz = Times(Fr, Cos(th)) - Times(Ftheta, Sin(th))
                /\ (Fr = Unit /\ Ftheta = 0 /\ Fphi = 0 /\ th = HalfPi /\ ph = 0)
                       => (Abs(Ux - Unit) <= Tol /\ Abs(Uy) <= Tol /\ Abs(Uz) <= Tol)

\* The field (1, 0, 0) has been transformed on a grid that holds theta = pi/2,
\* phi = 0, and points there along X.
C8_Witness ==
    /\ Evaluated("Spherical", "3D")
    /\ request.texts = <<<<"1">>, <<"0">>, <<"0">>>>
    /\ \E idx \in Indices(result.mesh[1].shape) :
           /\ At(result.mesh[2], idx) = HalfPi
           /\ At(result.mesh[3], idx) = 0
           /\ Abs(At(result.pre[1], idx) - Unit) <= Tol
           /\ Abs(At(result.pre[3], idx)) <= Tol

\* ---- C9
AllEmpty == request.texts = <<<<>>, <<>>, <<>>>>

\* C9: for each system and each of its four plot types, the routine applied
\* to the placeholder field (all three entries empty) raises nothing, reaches
\* ax.quiver and hands it finite components at every grid point.
C9_DefaultsFinite ==
    (AllEmpty /\ result # NoBranch) =>
        /\ result.raised = ""
        /\ result.drawn
        /\ \A i \in 1..Len(result.vec) : result.vec[i].bad = {}

\* The spherical placeholder field has been drawn on the R-theta slice, where
\* both components vanish at r = 0 and only the clamped divisor keeps the
\* quotient finite.
C9_Witness ==
    /\ AllEmpty
    /\ Evaluated("Spherical", "Rθ")
    /\ \E idx \in Indices(result.mesh[1].shape) :
           At(result.pre[1], idx) = 0 /\ At(result.pre[2], idx) = 0
    /\ \A i \in 1..Len(result.vec) : result.vec[i].bad = {}

\* ---- C10
\* C10: for every successfully evaluated request, every vector-component array
\* handed to ax.quiver has the shape of the grid-coordinate arrays, also when
\* the components name no grid symbol.
C10_ShapesMatch ==
    result.drawn =>
        \A i \in 1..Len(result.vec) : result.vec[i].shape = result.grid[1].shape

\* ---- C11
\* The inputs C11 names: coordinate system, plot type and the three field
\* strings.
SameSelections(q1, q2) ==
    /\ q1.coord_system = q2.coord_system
    /\ q1.plot_type = q2.plot_type
    /\ q1.field = q2.field

C12_Coordinates(coord_system) ==
    CASE coord_system = "Cartesian" -> <<"x", "y", "z">>
      [] coord_system = "Cylindrical" -> <<"r", "theta", "z">>
      [] coord_system = "Spherical" -> <<"r", "theta", "phi">>
C12_Named(plot_type) ==
    CASE plot_type = "XY" -> <<"x", "y">>
      [] plot_type = "YZ" -> <<"y", "z">>
      [] plot_type = "XZ" -> <<"x", "z">>
      [] plot_type = "Rθ" -> <<"r", "theta">>
      [] plot_type = "RZ" -> <<"r", "z">>
      [] plot_type = "θZ" -> <<"theta", "z">>
      [] plot_type = "Rφ" -> <<"r", "phi">>
      [] plot_type = "θφ" -> <<"theta", "phi">>
C12_Position(coord_system, name) ==
    CHOOSE k \in 1..3 : C12_Coordinates(coord_system)[k] = name
C12_Held(coord_system, plot_type) ==
    CHOOSE k \in 1..3 :
        /\ C12_Coordinates(coord_system)[k] # C12_Named(plot_type)[1]
        /\ C12_Coordinates(coord_system)[k] # C12_Named(plot_type)[2]
C12_HeldValue(coord_system, name) ==
    IF name = "r" THEN 5 * Fine
    ELSE IF coord_system = "Spherical" /\ name = "theta" THEN HalfPiFine
    ELSE 0

\* The span of a coordinate's axis, in 1/Unit.
C12_Span(coord_system, name) ==
    CASE name \in {"x", "y", "z"} -> <<-10 * Unit, 10 * Unit>>
      [] name = "r" -> <<0, 10 * Unit>>
      [] name = "phi" -> <<0, 2 * Pi>>
      [] name = "theta" -> IF coord_system = "Spherical" THEN <<0, Pi>> ELSE <<0, 2 * Pi>>

\* The expressions a routine evaluates, after its shifts.
C12_Expressions(coord_system, field) ==
    CASE coord_system = "Cartesian" -> CartesianTrees(field)
      [] coord_system = "Cylindrical" -> CylindricalTrees(field)
      [] coord_system = "Spherical" -> Trees(field)

\* A grid point of a slice: the two named coordinates from the mesh, the held
\* one at its constant.
C12_Point(coord_system, plot_type, idx) ==
    LET named == C12_Named(plot_type)
        held == C12_Coordinates(coord_system)[C12_Held(coord_system, plot_type)]
    IN  [n \in NameTokens |->
            IF n = named[1] THEN result.mesh[1].data[idx]
            ELSE IF n = named[2] THEN result.mesh[2].data[idx]
            ELSE IF n = held THEN C12_HeldValue(coord_system, held) \div (Fine \div Unit)
            ELSE 0]

TwoDimensional == request.plot_type # "3D" /\ result.drawn

\* C12: for every 2D plot type the grid is a 2-axis mesh over the two
\* coordinates the plot type names, each over its own span; the two plotted
\* components are those of these two coordinates; and each is the value of its
\* expression with the third coordinate replaced by a constant: 0 for a held
\* linear axis and for theta held in a cylindrical slice, 5 for a held radius.
C12_Slices ==
    TwoDimensional =>
        LET cs == request.coord_system
            named == C12_Named(request.plot_type)
            F == C12_Expressions(cs, request.field)
            span1 == C12_Span(cs, named[1])
            span2 == C12_Span(cs, named[2])
        IN  /\ Len(result.mesh) = 2 /\ Len(result.f) = 2
            /\ result.grid = result.mesh /\ result.pre = result.f
            /\ \A k \in 1..2 : result.mesh[k].shape = <<Points2D, Points2D>>
            /\ \A idx \in Indices(<<Points2D, Points2D>>) :
                   /\ result.mesh[1].data[idx] = Linspace(span1[1], span1[2], Points2D, idx[2])
                   /\ result.mesh[2].data[idx] = Linspace(span2[1], span2[2], Points2D, idx[1])
                   /\ \A k \in 1..2 :
                          At(result.f[k], idx) =
                              Eval(F[C12_Position(cs, named[k])],
                                   C12_Point(cs, request.plot_type, idx))

\* The cylindrical theta-Z slice has been drawn for a field whose theta
\* component is r: the component is 5 at every grid point.
C12_Witness ==
    /\ TwoDimensional
    /\ request.coord_system = "Cylindrical"
    /\ request.plot_type = "θZ"
    /\ request.texts[2] = <<"r">>
    /\ \A idx \in Indices(<<Points2D, Points2D>>) : At(result.f[1], idx) = 5 * Unit

\* ---- C13
\* C13: after any sequence of Move, Zoom, Rotate, Edit Axis, Reset View, Plot
\* and Save Plot clicks, the toolbar's pan tool is active only if current_mode
\* is 'move' and its zoom tool only if current_mode is 'zoom'.
C13_ModeConsistent ==
    /\ tool = "pan" => current_mode = "move"
    /\ tool = "zoom" => current_mode = "zoom"
====
